---- MODULE Spec2Model ----
(***************************************************************************)
(* Model of the University of Michigan ARC documentation scraper           *)
(* (src/umich-arc-scraper.py): one ARCDocScraper instance, its crawl loop, *)
(* the web site it talks to and the files it writes.                       *)
(*                                                                         *)
(* Strings are sequences of tokens.  A token is a chunk of characters that *)
(* the program never looks inside ("https://", the documentation host, a   *)
(* path segment, "/", "?", an extension such as ".pdf"), so substring,     *)
(* suffix and split operations of the code are computed token by token.    *)
(***************************************************************************)
EXTENDS Integers, Sequences, FiniteSets, TLC

VARIABLES
    site,              \* the web site the scraper runs against (its name)
    visited_urls,      \* self.visited_urls
    pages,             \* self.pages
    link_map,          \* self.link_map
    start_url,         \* crawl: parameter start_url
    urls_to_visit,     \* crawl: local urls_to_visit
    page_counter,      \* crawl: local page_counter
    url,               \* crawl: local url
    soup,              \* crawl: local soup
    pc,                \* position of the caller/crawl: "idle", "loop", "fetch", "soup", "raised"
    crawls,            \* number of crawl invocations started on the instance
    requests,          \* every URL handed to session.get, in order
    first_request,     \* Len(requests) when the running invocation started
    sleeps,            \* number of time.sleep(self.delay) calls of the running invocation
    page_files,        \* output_dir: file name -> page record written by save_page
    link_map_json,     \* output_dir/link_map.json: <<>> when absent, else <<content>>
    visited_urls_json, \* output_dir/visited_urls.json: <<>> when absent, else <<content>>
    index_json,        \* output_dir/index.json as written by create_index: <<>> when absent or overwritten
    proc_pc,           \* position of the processor run: "off", "loaded", "graphed"
    proc_pages,        \* ARCDocProcessor: self.pages
    link_graph_json    \* processor output link_graph.json: <<>> when absent, else <<content>>

vars == <<site, visited_urls, pages, link_map, start_url, urls_to_visit,
          page_counter, url, soup, pc, crawls, requests, first_request,
          sleeps, page_files, link_map_json, visited_urls_json, index_json,
          proc_pc, proc_pages, link_graph_json>>

(***************************************************************************)
(* Bounds and scaled program constants                                     *)
(***************************************************************************)
\* number of crawl invocations on one instance (the entry point makes 2)
MaxCrawls == 2

\* MAX_PAGES = 1000 in the source, scaled down
MAX_PAGES == 5

\* the literal 10 of "page_counter % 10 == 0", scaled down
SAVE_EVERY == 2

\* number of page files that load_data may fail to read in one run
MaxUnreadable == 1

(***************************************************************************)
(* Sequence helpers                                                        *)
(***************************************************************************)
Range(s) == {s[i] : i \in 1..Len(s)}

NoDuplicates(s) == \A i, j \in 1..Len(s) : s[i] = s[j] => i = j

\* Python "x in list"
InList(x, s) == \E i \in 1..Len(s) : s[i] = x

\* Python "needle in haystack" on strings
Contains(needle, haystack) ==
    \E i \in 0..(Len(haystack) - Len(needle)) :
        SubSeq(haystack, i + 1, i + Len(needle)) = needle

\* Python str.endswith
EndsWith(s, suffix) ==
    /\ Len(suffix) <= Len(s)
    /\ SubSeq(s, Len(s) - Len(suffix) + 1, Len(s)) = suffix

\* index of the first token of s at or after position from that is in stops, Len(s)+1 if none
RECURSIVE FirstIn(_, _, _)
FirstIn(s, stops, from) ==
    IF from > Len(s) THEN Len(s) + 1
    ELSE IF s[from] \in stops THEN from
    ELSE FirstIn(s, stops, from + 1)

(***************************************************************************)
(* URLs                                                                    *)
(***************************************************************************)
SCHEME == "https://"
DOC_HOST == "documentation.its.umich.edu"

BASE_URL == <<SCHEME, DOC_HOST, "/", "advanced-research-computing">>

\* f"{BASE_URL}?page=1"
PAGE1_URL == BASE_URL \o <<"?", "page=1">>

NON_HTML_EXTS == {<<".pdf">>, <<".doc">>, <<".docx">>, <<".jpg">>, <<".png">>, <<".gif">>}

\* urllib.parse.urlparse, for URLs that start with a scheme token
UrlParse(u) ==
    LET hasScheme == Len(u) > 0 /\ u[1] = SCHEME
        n0 == IF hasScheme THEN 2 ELSE 1
        n1 == IF hasScheme THEN FirstIn(u, {"/", "?", "#"}, 2) ELSE 1
        p1 == FirstIn(u, {"?", "#"}, n1)
        q1 == IF p1 <= Len(u) /\ u[p1] = "?" THEN FirstIn(u, {"#"}, p1 + 1) ELSE p1
    IN  [scheme |-> IF hasScheme THEN <<SCHEME>> ELSE <<>>,
         netloc |-> SubSeq(u, n0, n1 - 1),
         path   |-> SubSeq(u, n1, p1 - 1),
         query  |-> IF p1 <= Len(u) /\ u[p1] = "?" THEN SubSeq(u, p1 + 1, q1 - 1) ELSE <<>>]

\* urllib.parse.urljoin(base, href) for absolute hrefs and for hrefs that start with "/"
UrlJoin(base, href) ==
    IF Len(href) > 0 /\ href[1] = SCHEME THEN href
    ELSE IF Len(href) > 0 /\ href[1] = "/"
         THEN UrlParse(base).scheme \o UrlParse(base).netloc \o href
    ELSE base

\* ARCDocScraper.is_valid_url
is_valid_url(u) ==
    IF ~Contains(<<DOC_HOST>>, UrlParse(u).netloc) THEN FALSE
    ELSE IF \E ext \in NON_HTML_EXTS : EndsWith(u, ext) THEN FALSE
    ELSE TRUE

(***************************************************************************)
(* Fetched documents                                                       *)
(***************************************************************************)
\* what get_soup returns on an exception: None
None == [ok |-> FALSE, title |-> <<>>, has_main |-> FALSE, text |-> <<>>, anchors |-> <<>>]

\* a parsed document: title is <<>> when there is no <title> element, else <<its stripped text>>;
\* has_main says whether a div.region-content exists; text and anchors are its text blocks and
\* its <a href> elements in document order
Document(title, has_main, text, anchors) ==
    [ok |-> TRUE, title |-> title, has_main |-> has_main, text |-> text, anchors |-> anchors]

Anchor(href, text) == [href |-> href, text |-> text]

\* the links loop without the is_valid_url test
RECURSIVE ExtractLinksUnfiltered(_, _)
ExtractLinksUnfiltered(anchors, u) ==
    IF anchors = <<>> THEN <<>>
    ELSE <<[url  |-> UrlJoin(u, Head(anchors).href),
            text |-> IF Head(anchors).text = "" THEN "No Link Text" ELSE Head(anchors).text]>>
         \o ExtractLinksUnfiltered(Tail(anchors), u)

\* ARCDocScraper.extract_page_info: the links loop
RECURSIVE ExtractLinks(_, _)
ExtractLinks(anchors, u) ==
    IF anchors = <<>> THEN <<>>
    ELSE LET link     == Head(anchors)
             full_url == UrlJoin(u, link.href)
             rest     == ExtractLinks(Tail(anchors), u)
         IN  IF is_valid_url(full_url)
             THEN <<[url  |-> full_url,
                     text |-> IF link.text = "" THEN "No Link Text" ELSE link.text]>> \o rest
             ELSE rest

\* a page record that keeps every link of the main content region
ExtractPageInfoAllLinks(sp, u) ==
    [url     |-> u,
     title   |-> IF sp.title # <<>> THEN sp.title[1] ELSE "No Title",
     content |-> IF sp.has_main THEN sp.text ELSE <<>>,
     links   |-> IF sp.has_main THEN ExtractLinksUnfiltered(sp.anchors, u) ELSE <<>>]

\* ARCDocScraper.extract_page_info
extract_page_info(sp, u) ==
    [url     |-> u,
     title   |-> IF sp.title # <<>> THEN sp.title[1] ELSE "No Title",
     content |-> IF sp.has_main THEN sp.text ELSE <<>>,
     links   |-> IF sp.has_main THEN ExtractLinks(sp.anchors, u) ELSE <<>>]

(***************************************************************************)
(* Files                                                                   *)
(***************************************************************************)
\* re.sub(r'[^\w\-.]', '_', token) for the tokens of the model; every other token of the
\* model consists of word characters, '-' and '.' only
SanitizeToken(t) ==
    CASE t = "/"      -> "_"
      [] t = "?"      -> "_"
      [] t = "#"      -> "_"
      [] t = "page=1" -> "page_1"
      [] t = "v=2"    -> "v_2"
      [] t = "file="  -> "file_"
      [] OTHER        -> t

Sanitize(s) == [i \in 1..Len(s) |-> SanitizeToken(s[i])]

\* str.replace('/', '_')
ReplaceSlash(s) == [i \in 1..Len(s) |-> IF s[i] = "/" THEN "_" ELSE s[i]]

\* the character string a token sequence stands for
RECURSIVE Flatten(_)
Flatten(s) == IF s = <<>> THEN "" ELSE Head(s) \o Flatten(Tail(s))

\* ARCDocScraper.save_page: the file name of a page
PageFilename(u) ==
    LET parsed_url == UrlParse(u)
        replaced   == ReplaceSlash(parsed_url.path)
        filename   == Sanitize(IF replaced = <<>> THEN <<"index">> ELSE replaced)
        withQuery  == IF parsed_url.query # <<>>
                      THEN filename \o <<"_">> \o Sanitize(parsed_url.query)
                      ELSE filename
    IN  Flatten(withQuery \o <<".json">>)

\* ARCDocScraper.save_progress: what it writes to link_map.json
DumpLinkMap(lm) == <<lm>>

\* only the URLs of the stored pages are written
DumpVisitedPagesOnly(v) == <<DOMAIN pages>>

\* ARCDocScraper.save_progress: what it writes to visited_urls.json (a JSON array in the
\* iteration order of the set, which Python leaves unspecified: kept as the set of its elements)
DumpVisited(v) == <<v>>

\* the name create_index writes to and load_data skips
INDEX_FILE == "index.json"

\* an index that counts the visited URLs
BuildIndexOfVisited(ps, order) ==
    [total_pages |-> Cardinality(visited_urls),
     pages       |-> [i \in 1..Len(order) |->
                        [url            |-> order[i],
                         title          |-> ps[order[i]].title,
                         outgoing_links |-> Len(ps[order[i]].links)]]]

\* ARCDocScraper.create_index: the index of the page store, order being the keys of the
\* store in insertion order
BuildIndex(ps, order) ==
    [total_pages |-> Cardinality(DOMAIN ps),
     pages       |-> [i \in 1..Len(order) |->
                        [url            |-> order[i],
                         title          |-> ps[order[i]].title,
                         outgoing_links |-> Len(ps[order[i]].links)]]]

(***************************************************************************)
(* The processor (src/umich-arc-processor.py)                              *)
(***************************************************************************)
\* ARCDocProcessor.load_data: the page files it reads
LoadableFiles(files) == DOMAIN files \ {INDEX_FILE}

\* ARCDocProcessor.load_data: self.pages after reading the files of names
LoadPages(ps, files, names) ==
    [u \in {files[f].url : f \in names} \cup DOMAIN ps |->
        IF \E f \in names : files[f].url = u
        THEN files[CHOOSE f \in names : files[f].url = u]
        ELSE ps[u]]

\* the text of the last link from u to v: add_edge on an existing edge replaces its text
EdgeText(ps, u, v) ==
    LET last == CHOOSE i \in 1..Len(ps[u].links) :
                    /\ ps[u].links[i].url = v
                    /\ \A j \in (i + 1)..Len(ps[u].links) : ps[u].links[j].url # v
    IN  ps[u].links[last].text

\* edges are added for every link, also to pages that were not loaded
GraphEdgesUnfiltered(ps) ==
    UNION {{[source |-> u, target |-> ps[u].links[i].url,
             text |-> EdgeText(ps, u, ps[u].links[i].url)] : i \in 1..Len(ps[u].links)} :
              u \in DOMAIN ps}

\* ARCDocProcessor.build_link_graph: the edges of the graph
GraphEdges(ps) ==
    UNION {{[source |-> u, target |-> ps[u].links[i].url,
             text |-> EdgeText(ps, u, ps[u].links[i].url)] :
                i \in {k \in 1..Len(ps[u].links) : ps[u].links[k].url \in DOMAIN ps}} :
              u \in DOMAIN ps}

\* ARCDocProcessor.build_link_graph: the nodes of the graph
GraphNodes(ps) == {[id |-> u, title |-> ps[u].title] : u \in DOMAIN ps}

(***************************************************************************)
(* The crawl loop's pieces                                                 *)
(***************************************************************************)
EmptyMap == [x \in {} |-> x]

\* the store is rebuilt with the new record only
StorePageAlone(ps, u, page_info) == (u :> page_info)

\* self.pages[url] = page_info
StorePage(ps, u, page_info) == (u :> page_info) @@ ps

\* the URL is not recorded
MarkVisitedNot(v, u) == v

\* visited_urls.add(url)
MarkVisited(v, u) == v \cup {u}

\* a pop from the wrong end of the list
PopLast(q) == [item |-> q[Len(q)], rest |-> SubSeq(q, 1, Len(q) - 1)]

\* urls_to_visit.pop(0): the item returned and the list left
Pop(q) == [item |-> Head(q), rest |-> Tail(q)]

\* the check against visited_urls is missing
ShouldEnqueueUnvisitedOrNot(link_url, v, q) ==
    /\ ~InList(link_url, q)
    /\ Contains(<<DOC_HOST>>, link_url)

\* the condition under which crawl appends a link to urls_to_visit
ShouldEnqueue(link_url, v, q) ==
    /\ link_url \notin v
    /\ ~InList(link_url, q)
    /\ Contains(<<DOC_HOST>>, link_url)

\* only the first link of the page is considered
EnqueueFirstLinkOnly(links, v, q) ==
    IF links = <<>> THEN q
    ELSE IF ShouldEnqueue(Head(links).url, v, q) THEN Append(q, Head(links).url) ELSE q

\* crawl: the queue after the loop over page_info['links']
RECURSIVE EnqueueLinks(_, _, _)
EnqueueLinks(links, v, q) ==
    IF links = <<>> THEN q
    ELSE LET link_url == Head(links).url
         IN  EnqueueLinks(Tail(links), v,
                          IF ShouldEnqueue(link_url, v, q) THEN Append(q, link_url) ELSE q)

\* crawl: the link targets the loop appends to link_map[url]
RECURSIVE LinkTargets(_)
LinkTargets(links) ==
    IF links = <<>> THEN <<>> ELSE <<Head(links).url>> \o LinkTargets(Tail(links))

\* the key is created for every processed page, also for one without links
AddToLinkMapEveryPage(lm, u, page_info) ==
    (u :> LinkTargets(page_info.links)) @@ lm

\* crawl: link_map after the loop over page_info['links']
AddToLinkMap(lm, u, page_info) ==
    LET targets == LinkTargets(page_info.links)
    IN  IF targets = <<>> THEN lm
        ELSE IF u \in DOMAIN lm THEN [lm EXCEPT ![u] = @ \o targets]
        ELSE (u :> targets) @@ lm

\* crawl: "page_counter % 10 == 0"
SaveDue(n) == n % SAVE_EVERY = 0

\* the cap is compared with <= instead of <
LoopConditionOffByOne(q, n) == q # <<>> /\ n <= MAX_PAGES

\* crawl: the while condition
LoopCondition(q, n) == q # <<>> /\ n < MAX_PAGES

(***************************************************************************)
(* The web sites the scraper is run against                                *)
(***************************************************************************)
DocUrl(name) == <<SCHEME, DOC_HOST, "/", name>>

PDF_URL == <<SCHEME, DOC_HOST, "/", "guide", ".pdf">>
EXT_URL == <<SCHEME, "www.example.com", "/">>

\* two in-scope links and one PDF link
DocTwoAndPdf ==
    Document(<<"ARC">>, TRUE, <<"Services">>,
             <<Anchor(DocUrl("b"), "B"), Anchor(PDF_URL, "Guide"), Anchor(DocUrl("c"), "")>>)

\* no <title>; a root-relative link back to the base page, a repeated link
DocMany ==
    Document(<<>>, TRUE, <<"More", "pages">>,
             <<Anchor(<<"/", "advanced-research-computing">>, "Home"), Anchor(DocUrl("d"), "D"),
               Anchor(PAGE1_URL, "next"), Anchor(DocUrl("e"), "E"), Anchor(DocUrl("d"), "D again")>>)

\* only links the classifier rejects
DocRejected ==
    Document(<<"">>, TRUE, <<>>, <<Anchor(EXT_URL, "elsewhere"), Anchor(PDF_URL, "")>>)

\* no div.region-content: the anchors of the page are not looked at
DocNoMain ==
    Document(<<"Empty">>, FALSE, <<>>, <<Anchor(DocUrl("e"), "E")>>)

SmallUrls == {BASE_URL, PAGE1_URL, DocUrl("b"), DocUrl("c"), DocUrl("d"), DocUrl("e")}

\* a small site on which every page may fail or carry any of a few documents
SiteSmall ==
    [seeds |-> {PAGE1_URL, DocUrl("b")},
     resp  |-> [u \in SmallUrls |->
                  IF u = BASE_URL THEN {None, DocTwoAndPdf, DocMany, DocNoMain}
                  ELSE {None, DocTwoAndPdf, DocMany, DocRejected}]]

LinksTo(names) == [i \in 1..Len(names) |-> Anchor(DocUrl(names[i]), names[i])]

Page(names) == Document(<<"Page">>, TRUE, <<"text">>, LinksTo(names))

\* a larger site with one document per page: r has eight discoverable pages behind it
\* (x, f1, f2, f3, g1, g2 and, through x, p); s reaches p in two steps through x and in
\* three steps through e and g, and q in three steps
SiteDeep ==
    [seeds |-> {DocUrl("r"), DocUrl("s")},
     resp  |-> [u \in {DocUrl(n) : n \in {"r", "x", "f1", "f2", "f3", "g1", "g2", "p", "s", "e", "g", "q"}} |->
                  IF u = DocUrl("r") THEN {Page(<<"x", "f1", "f2", "f3", "g1", "g2">>)}
                  ELSE IF u = DocUrl("x") THEN {Page(<<"p">>)}
                  ELSE IF u = DocUrl("s") THEN {Page(<<"x", "e">>)}
                  ELSE IF u = DocUrl("e") THEN {Page(<<"g">>)}
                  ELSE IF u = DocUrl("g") THEN {Page(<<"q", "p">>)}
                  ELSE IF u \in {DocUrl("f1"), DocUrl("f2")} THEN {None, Page(<<>>)}
                  ELSE {Page(<<>>)}]]

\* URLs with unusual shapes
ROOT_URL == <<SCHEME, DOC_HOST, "/">>
HOST_URL == <<SCHEME, DOC_HOST>>
AB_URL == <<SCHEME, DOC_HOST, "/", "a", "/", "b">>
A_B_URL == <<SCHEME, DOC_HOST, "/", "a_b">>
UPPER_PDF_URL == <<SCHEME, DOC_HOST, "/", "guide", ".PDF">>
PDF_QUERY_URL == <<SCHEME, DOC_HOST, "/", "guide", ".pdf", "?", "v=2">>
QUERY_PDF_URL == <<SCHEME, DOC_HOST, "/", "view", "?", "file=", "guide", ".pdf">>
SUB_URL == <<SCHEME, "kb", ".", DOC_HOST, "/", "faq">>
EVIL_URL == <<SCHEME, "evil-", DOC_HOST, ".attacker.com", "/">>

Leaf == Page(<<>>)

OddRoot ==
    Document(<<"Root">>, TRUE, <<"root">>,
             <<Anchor(AB_URL, "a/b"), Anchor(A_B_URL, "a_b"), Anchor(UPPER_PDF_URL, "PDF"),
               Anchor(PDF_QUERY_URL, "pdf v2"), Anchor(QUERY_PDF_URL, "viewer"),
               Anchor(EVIL_URL, "evil"), Anchor(HOST_URL, "host"), Anchor(SUB_URL, "kb"),
               Anchor(PDF_URL, "pdf")>>)

OddExternal ==
    Document(<<"Elsewhere">>, TRUE, <<"links">>,
             <<Anchor(ROOT_URL, "root"), Anchor(HOST_URL, "host"), Anchor(EVIL_URL, "evil"),
               Anchor(SUB_URL, "kb"), Anchor(EXT_URL, "self")>>)

\* a site whose URLs have a root path, no path, names that differ only in '/' and '_',
\* extensions in upper case or before a query, and hosts that contain the documentation
\* host; the caller also starts a crawl at a URL of another host
SiteOdd ==
    [seeds |-> {ROOT_URL, EXT_URL},
     resp  |-> [u \in {ROOT_URL, HOST_URL, AB_URL, A_B_URL, UPPER_PDF_URL, PDF_QUERY_URL,
                       SUB_URL, EVIL_URL, EXT_URL} |->
                  IF u = ROOT_URL THEN {OddRoot}
                  ELSE IF u = EXT_URL THEN {OddExternal}
                  ELSE IF u = AB_URL THEN {None, Leaf}
                  ELSE {Leaf}]]

SiteNames == {"small", "deep", "odd"}

SiteOf(name) ==
    IF name = "small" THEN SiteSmall ELSE IF name = "deep" THEN SiteDeep ELSE SiteOdd

\* the start URLs the caller may pass to crawl on this site
Seeds(name) == SiteOf(name).seeds

\* the responses the server may give for a URL; a URL the site does not serve fails
Responses(name, u) ==
    IF u \in DOMAIN SiteOf(name).resp THEN SiteOf(name).resp[u] ELSE {None}

\* crawl() without an argument
NoStartUrl == <<>>

(***************************************************************************)
(* Initial state: a freshly constructed ARCDocScraper, an empty output dir *)
(***************************************************************************)
Init ==
    /\ site \in SiteNames
    /\ visited_urls = {}
    /\ pages = EmptyMap
    /\ link_map = EmptyMap
    /\ start_url = NoStartUrl
    /\ urls_to_visit = <<>>
    /\ page_counter = 0
    /\ url = <<>>
    /\ soup = None
    /\ pc = "idle"
    /\ crawls = 0
    /\ requests = <<>>
    /\ first_request = 0
    /\ sleeps = 0
    /\ page_files = EmptyMap
    /\ link_map_json = <<>>
    /\ visited_urls_json = <<>>
    /\ index_json = <<>>
    /\ proc_pc = "off"
    /\ proc_pages = EmptyMap
    /\ link_graph_json = <<>>

(***************************************************************************)
(* Actions                                                                 *)
(***************************************************************************)
\* crawl(start_url) is called: lines 136-140
Crawl(arg) ==
    /\ pc = "idle"
    /\ proc_pc = "off"
    /\ crawls < MaxCrawls
    /\ start_url' = IF arg = NoStartUrl THEN BASE_URL ELSE arg
    /\ urls_to_visit' = <<start_url'>>
    /\ page_counter' = 0
    /\ crawls' = crawls + 1
    /\ first_request' = Len(requests)
    /\ sleeps' = 0
    /\ pc' = "loop"
    /\ UNCHANGED <<index_json, proc_pc, proc_pages, link_graph_json, site, visited_urls, pages, link_map, url, soup, requests,
                   page_files, link_map_json, visited_urls_json>>

\* the skipped URL counts against the page cap
DequeueVisitedCounted ==
    /\ pc = "loop"
    /\ LoopCondition(urls_to_visit, page_counter)
    /\ Pop(urls_to_visit).item \in visited_urls
    /\ url' = Pop(urls_to_visit).item
    /\ urls_to_visit' = Pop(urls_to_visit).rest
    /\ page_counter' = page_counter + 1
    /\ pc' = "loop"
    /\ UNCHANGED <<index_json, proc_pc, proc_pages, link_graph_json, site, visited_urls, pages, link_map,
                   start_url, soup, crawls, requests, first_request, sleeps, page_files,
                   link_map_json, visited_urls_json>>

\* lines 142-147: the head of the queue is already visited, continue
DequeueVisited ==
    /\ pc = "loop"
    /\ LoopCondition(urls_to_visit, page_counter)
    /\ Pop(urls_to_visit).item \in visited_urls
    /\ url' = Pop(urls_to_visit).item
    /\ urls_to_visit' = Pop(urls_to_visit).rest
    /\ pc' = "loop"
    /\ UNCHANGED <<index_json, proc_pc, proc_pages, link_graph_json, site, visited_urls, pages, link_map, start_url, page_counter, soup,
                   crawls, requests, first_request, sleeps, page_files,
                   link_map_json, visited_urls_json>>

\* lines 142-151: the head of the queue is new, mark it and count it
DequeueNew ==
    /\ pc = "loop"
    /\ LoopCondition(urls_to_visit, page_counter)
    /\ Pop(urls_to_visit).item \notin visited_urls
    /\ url' = Pop(urls_to_visit).item
    /\ urls_to_visit' = Pop(urls_to_visit).rest
    /\ visited_urls' = MarkVisited(visited_urls, url')
    /\ page_counter' = page_counter + 1
    /\ pc' = "fetch"
    /\ UNCHANGED <<index_json, proc_pc, proc_pages, link_graph_json, site, pages, link_map, start_url, soup, crawls, requests,
                   first_request, sleeps, page_files, link_map_json, visited_urls_json>>

\* line 154 and get_soup: the request is sent, the server answers with one of its responses
GetSoup ==
    /\ pc = "fetch"
    /\ requests' = Append(requests, url)
    /\ \E r \in Responses(site, url) : soup' = r
    /\ pc' = "soup"
    /\ UNCHANGED <<index_json, proc_pc, proc_pages, link_graph_json, site, visited_urls, pages, link_map, start_url, urls_to_visit,
                   page_counter, url, crawls, first_request, sleeps, page_files,
                   link_map_json, visited_urls_json>>

\* the failure is not swallowed: the exception leaves crawl
FetchFailedRaises ==
    /\ pc = "soup"
    /\ soup = None
    /\ pc' = "raised"
    /\ UNCHANGED <<index_json, proc_pc, proc_pages, link_graph_json, site, visited_urls, pages, link_map, start_url, urls_to_visit,
                   page_counter, url, soup, crawls, requests, first_request, sleeps,
                   page_files, link_map_json, visited_urls_json>>

\* lines 155-156: "if not soup: continue"
FetchFailed ==
    /\ pc = "soup"
    /\ soup = None
    /\ pc' = "loop"
    /\ UNCHANGED <<index_json, proc_pc, proc_pages, link_graph_json, site, visited_urls, pages, link_map, start_url, urls_to_visit,
                   page_counter, url, soup, crawls, requests, first_request, sleeps,
                   page_files, link_map_json, visited_urls_json>>

\* lines 158-183: the page is extracted, stored, saved, its links are queued and mapped,
\* the periodic checkpoint is written when due, and the loop sleeps
ProcessPage ==
    /\ pc = "soup"
    /\ soup # None
    /\ LET page_info == extract_page_info(soup, url)
       IN  /\ pages' = StorePage(pages, url, page_info)
           /\ page_files' = (PageFilename(url) :> page_info) @@ page_files
           /\ index_json' = IF PageFilename(url) = INDEX_FILE THEN <<>> ELSE index_json
           /\ urls_to_visit' = EnqueueLinks(page_info.links, visited_urls, urls_to_visit)
           /\ link_map' = AddToLinkMap(link_map, url, page_info)
    /\ IF SaveDue(page_counter)
       THEN /\ link_map_json' = DumpLinkMap(link_map')
            /\ visited_urls_json' = DumpVisited(visited_urls)
       ELSE UNCHANGED <<link_map_json, visited_urls_json>>
    /\ sleeps' = sleeps + 1
    /\ pc' = "loop"
    /\ UNCHANGED <<proc_pc, proc_pages, link_graph_json, site, visited_urls, start_url, page_counter, url, soup, crawls,
                   requests, first_request>>

\* lines 158-163 when open() in save_page raises: the page is in self.pages, nothing is
\* written, the exception leaves crawl
SavePageRaises ==
    /\ pc = "soup"
    /\ soup # None
    /\ pages' = StorePage(pages, url, extract_page_info(soup, url))
    /\ pc' = "raised"
    /\ UNCHANGED <<index_json, proc_pc, proc_pages, link_graph_json, site, visited_urls, link_map, start_url, urls_to_visit, page_counter,
                   url, soup, crawls, requests, first_request, sleeps, page_files,
                   link_map_json, visited_urls_json>>

\* the loop ends and crawl returns without the final save_progress
CrawlEndWithoutSave ==
    /\ pc = "loop"
    /\ ~LoopCondition(urls_to_visit, page_counter)
    /\ pc' = "idle"
    /\ UNCHANGED <<index_json, proc_pc, proc_pages, link_graph_json, site, visited_urls, pages, link_map, start_url, urls_to_visit,
                   page_counter, url, soup, crawls, requests, first_request, sleeps,
                   page_files, link_map_json, visited_urls_json>>

\* lines 142, 185-187: the loop ends, the final progress is saved, crawl returns
CrawlEnd ==
    /\ pc = "loop"
    /\ ~LoopCondition(urls_to_visit, page_counter)
    /\ link_map_json' = DumpLinkMap(link_map)
    /\ visited_urls_json' = DumpVisited(visited_urls)
    /\ pc' = "idle"
    /\ UNCHANGED <<index_json, proc_pc, proc_pages, link_graph_json, site, visited_urls, pages, link_map, start_url, urls_to_visit,
                   page_counter, url, soup, crawls, requests, first_request, sleeps,
                   page_files>>

\* the keys of self.pages in insertion order
PagesInOrder == SelectSeq(requests, LAMBDA u : u \in DOMAIN pages)

\* ARCDocScraper.create_index (lines 199-216): index.json is written over whatever has that name
CreateIndex ==
    /\ pc = "idle"
    /\ proc_pc = "off"
    /\ index_json' = <<BuildIndex(pages, PagesInOrder)>>
    /\ page_files' = [f \in DOMAIN page_files \ {INDEX_FILE} |-> page_files[f]]
    /\ UNCHANGED <<proc_pc, proc_pages, link_graph_json, site, visited_urls, pages, link_map,
                   start_url, urls_to_visit, page_counter, url, soup, pc, crawls, requests,
                   first_request, sleeps, link_map_json, visited_urls_json>>

\* ARCDocProcessor.load_data (processor lines 51-66), run on the output directory once the
\* scraper has stopped: every page file is read, a file that cannot be read is skipped
LoadData ==
    /\ pc \in {"idle", "raised"}
    /\ proc_pc = "off"
    /\ crawls >= 1
    /\ \E unreadable \in SUBSET LoadableFiles(page_files) :
           /\ Cardinality(unreadable) <= MaxUnreadable
           /\ proc_pages' = LoadPages(proc_pages, page_files,
                                      LoadableFiles(page_files) \ unreadable)
    /\ proc_pc' = "loaded"
    /\ UNCHANGED <<index_json, link_graph_json, site, visited_urls, pages, link_map,
                   start_url, urls_to_visit, page_counter, url, soup, pc, crawls, requests,
                   first_request, sleeps, page_files, link_map_json, visited_urls_json>>

\* ARCDocProcessor.build_link_graph (processor lines 88-112)
BuildLinkGraph ==
    /\ proc_pc = "loaded"
    /\ link_graph_json' = <<[nodes |-> GraphNodes(proc_pages), edges |-> GraphEdges(proc_pages)]>>
    /\ proc_pc' = "graphed"
    /\ UNCHANGED <<index_json, proc_pages, site, visited_urls, pages, link_map,
                   start_url, urls_to_visit, page_counter, url, soup, pc, crawls, requests,
                   first_request, sleeps, page_files, link_map_json, visited_urls_json>>

Next ==
    \/ \E arg \in Seeds(site) \cup {NoStartUrl} : Crawl(arg)
    \/ DequeueVisited
    \/ DequeueNew
    \/ GetSoup
    \/ FetchFailed
    \/ ProcessPage
    \/ SavePageRaises
    \/ CrawlEnd
    \/ CreateIndex
    \/ LoadData
    \/ BuildLinkGraph

Spec == Init /\ [][Next]_vars

TypeOK ==
    /\ pc \in {"idle", "loop", "fetch", "soup", "raised"}
    /\ proc_pc \in {"off", "loaded", "graphed"}
    /\ page_counter \in 0..MAX_PAGES
    /\ crawls \in 0..MaxCrawls
    /\ site \in SiteNames
    /\ DOMAIN pages \subseteq visited_urls

(***************************************************************************)
(* Properties                                                              *)
(***************************************************************************)
\* the URLs handed to the Fetcher by the running (or last) invocation
ThisCrawl == {requests[i] : i \in (first_request + 1)..Len(requests)}

\* a crawl invocation is inside its loop
Running == pc \in {"loop", "fetch", "soup"}

\* C1: every URL is in visited_urls before its fetch begins and, over all crawl invocations
\* of the instance, is handed to the Fetcher at most once (so a failed URL is never fetched again)
AtMostOnceVisit ==
    /\ pc = "fetch" => url \in visited_urls
    /\ NoDuplicates(requests)
    /\ Range(requests) \subseteq visited_urls

\* a second invocation was seeded with a URL whose fetch had failed, dequeued it and sent nothing
AtMostOnceVisitWitness ==
    /\ crawls = 2
    /\ pc = "loop"
    /\ urls_to_visit = <<>>
    /\ url = start_url
    /\ url \in Range(requests)
    /\ url \notin DOMAIN pages
    /\ Len(requests) = first_request

\* C2: in every reachable state visited_urls has at most MAX_PAGES elements
VisitedWithinCap == Cardinality(visited_urls) <= MAX_PAGES

\* C3: while a crawl runs, no URL occurs twice in urls_to_visit and no URL of visited_urls
\* is in urls_to_visit
FrontierInvariant ==
    Running =>
        /\ NoDuplicates(urls_to_visit)
        /\ \A i \in 1..Len(urls_to_visit) : urls_to_visit[i] \notin visited_urls

\* C3 as amended: no URL occurs twice in urls_to_visit, and a URL of visited_urls is in
\* urls_to_visit only as the start URL of an invocation, alone in the queue, before the
\* first dequeue
FrontierInvariantAmended ==
    Running =>
        /\ NoDuplicates(urls_to_visit)
        /\ \A i \in 1..Len(urls_to_visit) :
               urls_to_visit[i] \in visited_urls =>
                   /\ urls_to_visit = <<start_url>>
                   /\ page_counter = 0

\* a later invocation processed a page that links to an already visited page and has
\* two URLs queued
FrontierWitness ==
    /\ crawls = 2
    /\ pc = "loop"
    /\ first_request > 0
    /\ Len(urls_to_visit) >= 2
    /\ url \in DOMAIN pages
    /\ url \in ThisCrawl
    /\ \E i \in 1..Len(pages[url].links) :
           pages[url].links[i].url \in visited_urls \ ThisCrawl

\* the URLs one in-scope link away from a URL of U, following the links of the stored
\* pages of U that are in expand
Successors(U, expand) ==
    UNION {{pages[u].links[i].url : i \in 1..Len(pages[u].links)} :
              u \in U \cap expand \cap DOMAIN pages}

\* minimum link-distance from the URLs of frontier (at distance d) to target, -1 if unreachable
RECURSIVE Distance(_, _, _, _, _)
Distance(frontier, seen, d, target, expand) ==
    IF target \in frontier THEN d
    ELSE IF frontier = {} THEN 0 - 1
    ELSE Distance(Successors(frontier, expand) \ (seen \cup frontier), seen \cup frontier,
                  d + 1, target, expand)

\* position of a URL in requests
RequestIndex(u) == CHOOSE i \in 1..Len(requests) : requests[i] = u

\* pages of this invocation at distance d and d+1 are requested in that order, the
\* distance being measured along the links of the pages in expand
BfsOrder(expand) ==
    \A P, Q \in ThisCrawl :
        LET dP == Distance({start_url}, {}, 0, P, expand)
            dQ == Distance({start_url}, {}, 0, Q, expand)
        IN  (dP >= 0 /\ dQ = dP + 1) => RequestIndex(P) < RequestIndex(Q)

\* C4: in a crawl invocation from start_url, for visited pages P at minimum in-scope
\* link-distance d from start_url and Q at distance d+1, P is dequeued and fetched before Q
BreadthFirstOrder == BfsOrder(DOMAIN pages)

\* C4 as amended: the same, the distance being measured along the links of the pages
\* fetched by this invocation (a page visited by an earlier invocation is not expanded again)
BreadthFirstOrderAmended == BfsOrder(ThisCrawl)

\* a later invocation has fetched pages at distance 2 and 3 from its start URL while a page
\* visited by an earlier invocation links to one of them
BreadthFirstWitness ==
    /\ crawls = 2
    /\ first_request > 0
    /\ \E P, Q \in ThisCrawl :
           /\ Distance({start_url}, {}, 0, P, ThisCrawl) = 2
           /\ Distance({start_url}, {}, 0, Q, ThisCrawl) = 3
    /\ \E v \in DOMAIN pages \ ThisCrawl : \E i \in 1..Len(pages[v].links) :
           pages[v].links[i].url \in ThisCrawl

FailedFetch ==
    [][(pc = "soup" /\ soup = None) =>
          /\ url \in visited_urls
          /\ page_counter >= 1
          /\ page_counter = Len(requests) - first_request
          /\ url \notin DOMAIN pages'
          /\ url \notin DOMAIN link_map'
          /\ pages' = pages
          /\ link_map' = link_map
          /\ urls_to_visit' = urls_to_visit
          /\ page_counter' = page_counter
          /\ pc' = "loop"]_vars

\* after a failed fetch the next frontier item has been dequeued and is about to be fetched
FailedFetchWitness ==
    /\ pc = "fetch"
    /\ page_counter >= 2
    /\ soup = None
    /\ requests[Len(requests)] \notin DOMAIN pages
    /\ requests[Len(requests)] \in ThisCrawl

\* the link targets of a document, resolved against the page's URL, in document order
RawTargets(sp, u) ==
    IF sp.has_main THEN [i \in 1..Len(sp.anchors) |-> UrlJoin(u, sp.anchors[i].href)] ELSE <<>>

\* a step that processes a fetched page completely
ProcessStep == pc = "soup" /\ soup # None /\ pc' = "loop"

DelayBetweenFetches == pc = "fetch" => sleeps >= page_counter - 1

\* C9: whenever the page counter is at a multiple of SAVE_EVERY at the head of the loop,
\* link_map and visited_urls have been persisted as they are
PeriodicCheckpoint ==
    (pc = "loop" /\ page_counter > 0 /\ SaveDue(page_counter)) =>
        /\ link_map_json = <<link_map>>
        /\ visited_urls_json = <<visited_urls>>

\* a step that processes a fetched page and writes the periodic checkpoint
PeriodicSaveStep == ProcessStep /\ SaveDue(page_counter)

\* C10: the periodic checkpoint holds in visited_urls exactly the successfully visited URLs,
\* as many as the counter says, and in link_map their link_map entries
CheckpointHoldsSuccessfulOnly ==
    [][PeriodicSaveStep =>
          /\ visited_urls_json' = <<DOMAIN pages'>>
          /\ link_map_json' = <<link_map'>>]_vars

\* C10 as amended: the periodic checkpoint holds in visited_urls exactly the URLs handed to
\* the Fetcher so far, failed ones and those of earlier invocations included, and in
\* link_map exactly the link_map entries of the stored pages
CheckpointHoldsVisited ==
    [][PeriodicSaveStep =>
          /\ visited_urls_json' = <<Range(requests)>>
          /\ Cardinality(Range(requests)) = first_request + page_counter
          /\ link_map_json' = <<link_map'>>
          /\ DOMAIN link_map' \subseteq DOMAIN pages'
          /\ \A u \in DOMAIN link_map' : link_map'[u] = LinkTargets(pages'[u].links)]_vars

\* a periodic checkpoint has just been written after an earlier fetch of the invocation failed
CheckpointWitness ==
    /\ pc = "loop"
    /\ page_counter > 0
    /\ SaveDue(page_counter)
    /\ requests[Len(requests)] \in DOMAIN pages
    /\ \E u \in ThisCrawl : u \notin DOMAIN pages
    /\ visited_urls_json = <<visited_urls>>
    /\ sleeps < page_counter

\* C11: when a crawl invocation has ended, because the queue emptied or because the cap was
\* reached, link_map.json and visited_urls.json hold the in-memory link_map and visited_urls
FinalCheckpoint ==
    (pc = "idle" /\ crawls >= 1) =>
        /\ urls_to_visit = <<>> \/ page_counter = MAX_PAGES
        /\ link_map_json = <<link_map>>
        /\ visited_urls_json = <<visited_urls>>

\* an invocation has ended whose last visit failed after the last periodic checkpoint, so
\* only the final save can have put that URL into visited_urls.json
FinalCheckpointWitness ==
    /\ pc = "idle"
    /\ crawls >= 1
    /\ page_counter >= 2
    /\ requests[Len(requests)] \in ThisCrawl
    /\ requests[Len(requests)] \notin DOMAIN pages
    /\ visited_urls_json = <<visited_urls>>

\* C12: when the write of a fetched page's file fails, the crawl goes on with the next
\* frontier item (and so reaches the final checkpoint)
CrawlSurvivesPageWriteFailure ==
    [][(pc = "soup" /\ soup # None /\ page_files' = page_files) => pc' = "loop"]_vars

\* C13: a page record, once stored, is never changed, replaced or removed by a later step
\* of the same or of a later invocation, and a step that stores a record stores it under a
\* URL that has no record yet
PageStoreAppendOnly ==
    [][/\ \A u \in DOMAIN pages : u \in DOMAIN pages' /\ pages'[u] = pages[u]
       /\ pages' # pages =>
              /\ url \notin DOMAIN pages
              /\ DOMAIN pages' = DOMAIN pages \cup {url}]_vars

\* a later invocation has stored a page that links to a page stored by an earlier
\* invocation, and both records are in the store
PageStoreWitness ==
    /\ crawls = 2
    /\ \E u \in DOMAIN pages \cap ThisCrawl : \E i \in 1..Len(pages[u].links) :
           /\ pages[u].links[i].url \in DOMAIN pages \ ThisCrawl
           /\ pages[u].links[i].url \in Range(requests)

\* the pages whose save_page call has returned
SavedUrls == DOMAIN pages \ (IF pc = "raised" THEN {url} ELSE {})

\* the file name the transform is claimed to give: "index" for the empty path and for "/",
\* else the path (and, after "_", the query) with every character outside letters, digits,
\* '-', '_' and '.' replaced by '_'
ClaimedFilename(u) ==
    LET parsed_url == UrlParse(u)
        name       == IF parsed_url.path \in {<<>>, <<"/">>} THEN <<"index">>
                      ELSE Sanitize(parsed_url.path)
    IN  Flatten(name \o (IF parsed_url.query # <<>>
                         THEN <<"_">> \o Sanitize(parsed_url.query) ELSE <<>>)
                     \o <<".json">>)

\* C14: every saved page has the file name of the claimed transform, and the files of two
\* distinct saved pages differ, so that every saved page's file still holds its record
PageFilenames ==
    /\ \A u \in SavedUrls :
           /\ PageFilename(u) = ClaimedFilename(u)
           /\ PageFilename(u) \in DOMAIN page_files
           /\ page_files[PageFilename(u)] = pages[u]
    /\ \A u, v \in SavedUrls : u # v => PageFilename(u) # PageFilename(v)

\* str.lower() for the tokens of the model
LowerToken(t) == IF t = ".PDF" THEN ".pdf" ELSE t

Lower(s) == [i \in 1..Len(s) |-> LowerToken(s[i])]

\* the path of the URL ends in one of the non-document extensions, in any case
PathHasNonHtmlExt(u) == \E ext \in NON_HTML_EXTS : EndsWith(Lower(UrlParse(u).path), ext)

\* the link targets a page record holds
KeptTargets(page_info) == Range(LinkTargets(page_info.links))

\* C15: among the link targets on the documentation host, the classifier rejects exactly
\* those whose path ends in pdf, doc, docx, jpg, png or gif, compared without regard to case
\* and on the path only
ExtensionRule ==
    [][ProcessStep =>
          \A t \in Range(RawTargets(soup, url)) :
              Contains(<<DOC_HOST>>, UrlParse(t).netloc) =>
                  (t \in KeptTargets(pages'[url]) <=> ~PathHasNonHtmlExt(t))]_vars

\* the host of the URL is the documentation host or a subdomain of it
HostIsDocHostOrSubdomain(u) ==
    \/ UrlParse(u).netloc = <<DOC_HOST>>
    \/ EndsWith(UrlParse(u).netloc, <<".", DOC_HOST>>)

\* C16: every link target the classifier accepted (the links of the page records and the
\* URLs queued from them) has the documentation host or a subdomain of it as its host
HostRule ==
    /\ \A u \in DOMAIN pages : \A t \in KeptTargets(pages[u]) : HostIsDocHostOrSubdomain(t)
    /\ Running => \A i \in 1..Len(urls_to_visit) :
           urls_to_visit[i] # start_url => HostIsDocHostOrSubdomain(urls_to_visit[i])


\* C17: whenever create_index writes the crawl index, total_pages is the number of records
\* in the page store, the index has exactly one entry per stored URL carrying that
\* record's title and the length of its links list as outgoing_links, and total_pages
\* (the number of URLs fetched successfully) is at most the number of visited URLs.
IndexMatchesPageStore ==
    [][(index_json' # index_json /\ index_json' # <<>>) =>
         LET ix == index_json'[1] IN
         /\ ix.total_pages = Cardinality(DOMAIN pages)
         /\ Len(ix.pages) = ix.total_pages
         /\ {ix.pages[i].url : i \in 1..Len(ix.pages)} = DOMAIN pages
         /\ \A i \in 1..Len(ix.pages) :
                /\ ix.pages[i].title = pages[ix.pages[i].url].title
                /\ ix.pages[i].outgoing_links = Len(pages[ix.pages[i].url].links)
         /\ DOMAIN pages \subseteq Range(requests)
         /\ ix.total_pages <= Cardinality(visited_urls)]_vars

\* an index of at least two pages, one of them with several links, written when some
\* visited URL has no record
IndexWitness ==
    /\ index_json # <<>>
    /\ index_json[1].total_pages >= 2
    /\ index_json[1].total_pages = Cardinality(DOMAIN pages)
    /\ index_json[1].total_pages < Cardinality(visited_urls)
    /\ \E i \in 1..Len(index_json[1].pages) : index_json[1].pages[i].outgoing_links >= 2

\* C18: in the exported link graph the nodes are the loaded pages, every edge has its
\* source and its target among them, and every link of a loaded page whose target is a
\* loaded page has its edge.
LinkGraphClosed ==
    link_graph_json # <<>> =>
        LET g   == link_graph_json[1]
            ids == {n.id : n \in g.nodes}
        IN  /\ ids = DOMAIN proc_pages
            /\ \A e \in g.edges : e.source \in ids /\ e.target \in ids
            /\ \A u \in DOMAIN proc_pages : \A i \in 1..Len(proc_pages[u].links) :
                   proc_pages[u].links[i].url \in DOMAIN proc_pages =>
                       \E e \in g.edges : /\ e.source = u
                                          /\ e.target = proc_pages[u].links[i].url

\* a graph with an edge, built from pages of which one links to a URL that was not loaded
LinkGraphWitness ==
    /\ link_graph_json # <<>>
    /\ link_graph_json[1].edges # {}
    /\ Cardinality(link_graph_json[1].nodes) >= 2
    /\ \E u \in DOMAIN proc_pages : \E i \in 1..Len(proc_pages[u].links) :
           proc_pages[u].links[i].url \notin DOMAIN proc_pages

\* C19: a crawl invocation ends in one of two ways only: with urls_to_visit empty, or with
\* page_counter at the cap and the URLs still queued neither requested nor marked visited.
CrawlEndsCompletedOrDraining ==
    [][(Running /\ ~Running') =>
          /\ pc' = "idle"
          /\ \/ urls_to_visit' = <<>>
             \/ /\ page_counter' = MAX_PAGES
                /\ \A u \in Range(urls_to_visit') :
                       u \notin visited_urls' /\ u \notin Range(requests')]_vars

\* C20 as stated: every URL handed to the Fetcher, seeds included, is one that the
\* classifier accepts.
EveryRequestClassified ==
    \A i \in 1..Len(requests) : is_valid_url(requests[i])

\* C20: every URL handed to the Fetcher other than the start URL of its invocation is a
\* link target that the classifier accepted on a page fetched earlier in that invocation;
\* the start URL is fetched without being classified.
EveryRequestButSeedClassified ==
    [][requests' # requests =>
          LET u == requests'[Len(requests')] IN
          \/ u = start_url /\ Len(requests) = first_request
          \/ /\ is_valid_url(u)
             /\ \E p \in ThisCrawl \cap DOMAIN pages : u \in KeptTargets(pages[p])]_vars

\* an invocation started at a URL the classifier rejects has fetched it and then fetched
\* a link target found on it
SeedUnclassifiedWitness ==
    /\ Len(requests) >= first_request + 2
    /\ requests[first_request + 1] = start_url
    /\ ~is_valid_url(start_url)
    /\ is_valid_url(requests[first_request + 2])
    /\ requests[first_request + 2] \in KeptTargets(pages[start_url])

\* the start URL of the running invocation was visited before the invocation began
SeedAlreadyVisited == Running /\ start_url \in visited_urls /\ Len(requests) = first_request
                              /\ page_counter = 0

\* C21: when the URL at the head of urls_to_visit is already in visited_urls, the step only
\* removes it from the queue: no request, no change of page_counter, no sleep, no change of
\* visited_urls, pages, link_map or any file; and an invocation whose start URL is already
\* visited sends no request, changes none of these and ends by writing the checkpoint.
SkipVisitedIsNoOp ==
    [][/\ (pc = "loop" /\ LoopCondition(urls_to_visit, page_counter)
                       /\ Head(urls_to_visit) \in visited_urls) =>
              /\ urls_to_visit' = Tail(urls_to_visit)
              /\ pc' = "loop"
              /\ UNCHANGED <<visited_urls, pages, link_map, page_counter, requests, sleeps,
                             page_files, link_map_json, visited_urls_json, index_json>>
       /\ SeedAlreadyVisited =>
              /\ UNCHANGED <<visited_urls, pages, link_map, page_counter, requests, sleeps,
                             page_files, index_json>>
              /\ urls_to_visit' = <<>>
              /\ pc' \in {"loop", "idle"}
              /\ pc' = "idle" => /\ link_map_json' = <<link_map>>
                                 /\ visited_urls_json' = <<visited_urls>>]_vars

\* a second invocation, started at a URL whose page the first one had stored, has ended
\* with nothing requested, counted or slept
SkipVisitedWitness ==
    /\ crawls = 2
    /\ pc = "idle"
    /\ start_url \in DOMAIN pages
    /\ Len(requests) = first_request
    /\ first_request >= 2
    /\ page_counter = 0
    /\ sleeps = 0
    /\ visited_urls_json = <<visited_urls>>

\* C22: in every state the keys of pages are in visited_urls, the keys of link_map are keys
\* of pages, and for every page that was processed completely link_map[u] is the sequence
\* of the URLs of pages[u].links in their order, a page without kept links having no key.
StateContainment ==
    /\ DOMAIN pages \subseteq visited_urls
    /\ DOMAIN link_map \subseteq DOMAIN pages
    /\ \A u \in SavedUrls :
           IF pages[u].links = <<>>
           THEN u \notin DOMAIN link_map
           ELSE /\ u \in DOMAIN link_map
                /\ link_map[u] = LinkTargets(pages[u].links)

\* after two invocations: a visited URL without a record, a record without kept links and
\* so without a link_map key, and a record whose links name the same target twice
StateContainmentWitness ==
    /\ crawls = 2
    /\ visited_urls \ DOMAIN pages # {}
    /\ \E u \in SavedUrls : pages[u].links = <<>> /\ u \notin DOMAIN link_map
    /\ \E u \in SavedUrls :
           /\ Len(pages[u].links) >= 3
           /\ ~NoDuplicates(link_map[u])

\* the URLs reachable from frontier along the links of the stored pages
RECURSIVE ReachableFrom(_, _)
ReachableFrom(frontier, seen) ==
    IF frontier = {} THEN seen
    ELSE ReachableFrom(Successors(frontier, DOMAIN pages) \ (seen \cup frontier),
                       seen \cup frontier)

\* C23: when the first invocation on a new instance has returned with urls_to_visit empty
\* and page_counter below the cap, visited_urls is exactly the set of URLs reachable from
\* the start URL along the kept links of the pages that were fetched, and these are
\* exactly the URLs that were requested.
CrawlComplete ==
    (pc = "idle" /\ crawls = 1 /\ urls_to_visit = <<>> /\ page_counter < MAX_PAGES) =>
        /\ visited_urls = ReachableFrom({start_url}, {})
        /\ Range(requests) = visited_urls

\* such an invocation has returned after a failed fetch and at least two stored pages, one
\* page carrying a link that the classifier rejected and that was therefore not followed
CrawlCompleteWitness ==
    /\ pc = "idle" /\ crawls = 1 /\ urls_to_visit = <<>> /\ page_counter < MAX_PAGES
    /\ Cardinality(DOMAIN pages) >= 2
    /\ Cardinality(visited_urls) >= 3
    /\ visited_urls \ DOMAIN pages # {}
    /\ \E u \in DOMAIN pages : pages[u] = extract_page_info(DocTwoAndPdf, u)
    /\ PDF_URL \notin visited_urls
    /\ visited_urls = ReachableFrom({start_url}, {})
====
